---- MODULE Spec2Model ----
(***************************************************************************)
(* libisfj: the engine, its workers and the task ledger (engine.go), the   *)
(* job model (models.go) and the outcomes of the compiler, the runner and  *)
(* the judgers as the engine sees them.                                    *)
(***************************************************************************)
EXTENDS Integers, Sequences, FiniteSets, TLC

(* ------------------------------------------------------------------ *)
(* models.go: Status (iota), JudgeMode                                 *)
(* ------------------------------------------------------------------ *)
ST_WAITING == 0
ST_RUNNING == 1
ST_CANCELLED == 2
ST_ACCEPTED == 3
ST_COMPILATION_ERROR == 4
ST_COMPILATION_SUCCESS == 5
ST_WRONG_ANSWER == 6
ST_RUNTIME_ERROR == 7
ST_HOSTILE_CODE == 8
ST_TIME_LIMIT_EXCEEDED == 9
ST_MEMORY_LIMIT_EXCEEDED == 10
ST_SYSTEM_ERROR == 11
ST_SKIPPED == 12

J_LAX == 0
J_STRICT == 1
J_SPECIAL == 2

\* JudgeMode is a uint16
Uint16(n) == n % (2 ^ 16)

\* JudgeMode.ModeBits: m & 0x00ff
ModeBits(m) == m % (2 ^ 8)

\* JudgeMode.JudgerId: int((m & 0xff00) >> 8)
JudgerId(m) == (m - (m % (2 ^ 8))) \div (2 ^ 8)

\* MakeSpecialJudgeMode without the shift of the judger id
MakeSpecialJudgeMode_NoShift(judger) == Uint16(Uint16(judger) + J_SPECIAL)

\* MakeSpecialJudgeMode: JudgeMode(judger << 8) + J_SPECIAL
MakeSpecialJudgeMode(judger) == Uint16(Uint16(judger * (2 ^ 8)) + J_SPECIAL)

(* ------------------------------------------------------------------ *)
(* Bounds of the model                                                 *)
(* ------------------------------------------------------------------ *)
\* Schedule calls issued by the embedding program
MaxTasks == 2
\* workers spawned by SpawnWorkers(n)
NumWorkers == 1
\* largest deduction a run reports
MaxDeduction == 2
\* Shutdown calls issued by the embedding program
MaxShutdowns == 1
\* cases of all the jobs scheduled on one engine together
MaxCases == 1
\* judgers added to the engine before SpawnWorkers: every worker holds a
\* clone of each, at the indices 0..NumJudgers-1
NumJudgers == 1

\* the time a Run call is followed for, in units of the poll interval
MaxClock == 3
\* largest stack or heap size a sample of the child reports
MaxMem == 2
\* largest syscall number a seccomp stop reports
MaxNr == 2
\* largest exit status of the child
MaxExit == 1
\* number of listener calls of a task followed until they ran
MaxRan == 2

\* largest argument of the MakeSpecialJudgeMode calls followed
MaxJudgerArg == 256

Workers == 1..NumWorkers

\* Groups == nil in JobInit
NoGroups == <<"nil">>
\* no task bound / no snapshot held
NoTask == -1
NoSnap == [task |-> NoTask]
\* no Run call in progress
NoRun == [pc |-> "none"]

(* ------------------------------------------------------------------ *)
(* models.go: Case, CaseResult, Job                                    *)
(* ------------------------------------------------------------------ *)
\* zero value of CaseResult: Status 0 = ST_WAITING, no usages, 0 points, ""
ZeroResult == [Status |-> ST_WAITING, Usages |-> 0, Points |-> 0, Extra |-> ""]

\* Job.Finished
Finished(j) == j.Status # ST_WAITING /\ j.Status # ST_RUNNING

\* JobInit values the embedding program submits: Cases is indexed from 0 as
\* in the source and holds each case's Points; Groups holds 1-based indices.
JobInits ==
  { [Lang |-> "cpp", Mode |-> J_LAX, Cases |-> <<>>, Groups |-> NoGroups],
    [Lang |-> "cpp", Mode |-> J_LAX, Cases |-> <<2>>, Groups |-> NoGroups],
    [Lang |-> "cpp", Mode |-> J_STRICT, Cases |-> <<1, 2>>, Groups |-> NoGroups],
    [Lang |-> "cpp", Mode |-> J_LAX, Cases |-> <<2, 1>>,
     Groups |-> << <<1, 2>> >>],
    [Lang |-> "cpp", Mode |-> J_LAX, Cases |-> <<-1>>, Groups |-> NoGroups] }

\* JobInit values that name what the engine may not have: a judger by its
\* id (held, or the first id no worker holds) and a language without a
\* compiler
HostInits ==
  { [Lang |-> "cpp", Mode |-> MakeSpecialJudgeMode(0), Cases |-> <<2>>,
     Groups |-> NoGroups],
    [Lang |-> "cpp", Mode |-> MakeSpecialJudgeMode(NumJudgers), Cases |-> <<2>>,
     Groups |-> NoGroups],
    [Lang |-> "none", Mode |-> J_LAX, Cases |-> <<2>>, Groups |-> NoGroups] }

\* the JobInit value of a job with a listener: one case, no groups
ListenInits ==
  { [Lang |-> "cpp", Mode |-> J_LAX, Cases |-> <<2>>, Groups |-> NoGroups] }

\* packed JobInit values: two groups that partition the cases, the first
\* listing its cases out of index order; two groups that cover the one
\* case twice; and one group that leaves the first of two cases out
PackedInits ==
  { [Lang |-> "cpp", Mode |-> J_LAX, Cases |-> <<1, 1, 1>>,
     Groups |-> << <<2, 1>>, <<3>> >>],
    [Lang |-> "cpp", Mode |-> J_LAX, Cases |-> <<2>>,
     Groups |-> << <<1>>, <<1>> >>],
    [Lang |-> "cpp", Mode |-> J_LAX, Cases |-> <<1, 1>>,
     Groups |-> << <<2>> >>] }

\* NewJob: Status waiting, len(Cases)+1 zero results (index 0 = compilation)
NewJob(init) ==
  [ Status |-> ST_WAITING,
    Lang |-> init.Lang,
    Mode |-> init.Mode,
    Cases |-> [i \in 0..(Len(init.Cases) - 1) |-> [Points |-> init.Cases[i + 1]]],
    Groups |-> init.Groups,
    Results |-> [i \in 0..Len(init.Cases) |-> ZeroResult] ]

NumCases(j) == Cardinality(DOMAIN j.Cases)

Max(a, b) == IF a >= b THEN a ELSE b

(* ------------------------------------------------------------------ *)
(* Outcomes of the collaborators, as the engine reads them             *)
(* ------------------------------------------------------------------ *)
\* the languages AddCompiler registered a compiler for
Compilers == {"cpp"}

\* Compiler.Compile: (status, output)
CompileOutcomes ==
  { [Status |-> ST_COMPILATION_SUCCESS, Output |-> "exe"],
    [Status |-> ST_COMPILATION_ERROR, Output |-> "diag"],
    [Status |-> ST_SYSTEM_ERROR, Output |-> ""] }

\* Run: the RunnerOutput values its return statements build. Usages is 0
\* when the return leaves it unset and 1 for a sampled value; ExitInfo is
\* folded into the Extra text runOne formats from it.
RunnerOutputs ==
  { [Status |-> ST_ACCEPTED, Usages |-> 1, Deduction |-> d] : d \in 0..MaxDeduction }
  \cup
  { [Status |-> s, Usages |-> 1, Deduction |-> 0] :
      s \in {ST_RUNTIME_ERROR, ST_HOSTILE_CODE, ST_TIME_LIMIT_EXCEEDED,
             ST_MEMORY_LIMIT_EXCEEDED} }
  \cup
  { [Status |-> ST_SYSTEM_ERROR, Usages |-> 0, Deduction |-> 0] }

\* what Compile returns on the compiler run looks up for lang: a nil
\* *Compiler returns only where WriteFile fails, before c.command is read
CompileReturns(lang) ==
  IF lang \in Compilers THEN CompileOutcomes
  ELSE {c \in CompileOutcomes : c.Status = ST_SYSTEM_ERROR}

\* whether Compile panics: on a nil *Compiler, c.command is a nil
\* dereference once WriteFile succeeded
CompilePanics(lang) == IF lang \in Compilers THEN {FALSE} ELSE {FALSE, TRUE}

\* whether Run panics: vforkExec reads process.Pid of the nil *Process that
\* os.StartProcess returns with an error
RunPanics == {FALSE, TRUE}

\* the statuses runOne's switch on ModeBits can end with: LaxJudge and
\* StrictJudge return a bool mapped to accepted / wrong_answer; a special
\* judger fails to Clone (system_error) or returns the status of its Judge
\* (ExternalJudger: accepted, wrong_answer, system_error; LuaJudger: the
\* number its script returned, here also 0 = ST_WAITING)
JudgeOutcomes(mode) ==
  IF ModeBits(mode) = J_SPECIAL
    THEN {ST_ACCEPTED, ST_WRONG_ANSWER, ST_SYSTEM_ERROR, ST_WAITING}
    ELSE {ST_ACCEPTED, ST_WRONG_ANSWER}

\* whether w.judgers[JudgerId()] is an index out of range
JudgePanics(mode) ==
  ModeBits(mode) = J_SPECIAL /\ JudgerId(mode) \notin 0..(NumJudgers - 1)

(* ------------------------------------------------------------------ *)
(* State                                                               *)
(* ------------------------------------------------------------------ *)
VARIABLES
  counter,      \* Engine.counter
  taskIds,      \* Engine.taskIds, the ledger
  lock,         \* Engine.lock: "free" or the holder
  queue,        \* Engine.queue (unbuffered): the task a Schedule is sending
  spc,          \* position of the Schedule call in flight
  stopFlag,     \* Engine.stopFlag: the generation of the current channel
  closed,       \* the stopFlag channels that were closed
  shutpc,       \* position of the Shutdown call in flight
  job,          \* Task.job of every task created
  cpc,          \* position of CancelTask on each task
  cancelled,    \* Task.cancel has marked the task
  wpc,          \* position of each worker in poll
  wtask,        \* the task a worker dequeued
  wchan,        \* the stopFlag channel a worker's select waits on
  rpc,          \* position of worker.run on each task
  cres,         \* run's locals (status, output) returned by Compile
  units,        \* the goroutines runUnpacked / runPacked spawned per task
  boundAtStop,  \* workers inside run when Shutdown closed the channel
  snap,         \* a Job value returned by Task.SnapJob
  crashed,      \* "no", or the call in which a goroutine panicked
  listener,     \* the tasks whose listener field is not nil
  started,      \* the go t.listener(t.job) statements executed, in order
  ran,          \* the started listener calls that ran, in the order they ran
  run,          \* the locals of a Run call made on its own
  judgerArg,    \* the argument of a MakeSpecialJudgeMode call
  judgeMode     \* a JudgeMode value held by the embedding program

vars == <<counter, taskIds, lock, queue, spc, stopFlag, closed, shutpc, job,
          cpc, cancelled, wpc, wtask, wchan, rpc, cres, units, boundAtStop,
          snap, crashed, listener, started, ran, run, judgerArg, judgeMode>>

engineVars == <<counter, taskIds, lock, queue, spc>>
stopVars == <<stopFlag, closed, shutpc, boundAtStop>>
cancelVars == <<cpc, cancelled>>
workerVars == <<wpc, wtask, wchan>>
runVars == <<rpc, cres, units>>
\* the listeners of the tasks and their calls
listenVars == <<listener, started, ran>>
\* the state of the calls made outside an engine
libVars == <<run, judgerArg, judgeMode>>
\* the state of the engine, its tasks and its workers
allEngineVars == <<engineVars, stopVars, job, cancelVars, workerVars, runVars,
                   snap, crashed, listenVars>>

Tasks == DOMAIN job

\* no goroutine has panicked: the process is running
Alive == crashed = "no"

\* the cases of the jobs scheduled so far
RECURSIVE CasesOf(_)
CasesOf(ts) ==
  IF ts = {} THEN 0
  ELSE LET t == CHOOSE x \in ts : TRUE
       IN  Cardinality(DOMAIN job[t].Cases) + CasesOf(ts \ {t})

\* NewEngine, SpawnWorkers(NumWorkers): nothing scheduled, every worker
\* at the top of poll's loop
EngineInit ==
  /\ counter = 0
  /\ taskIds = <<>>
  /\ lock = "free"
  /\ queue = <<>>
  /\ spc = "idle"
  /\ stopFlag = 0
  /\ closed = {}
  /\ shutpc = "idle"
  /\ job = <<>>
  /\ cpc = <<>>
  /\ cancelled = <<>>
  /\ wpc = [w \in Workers |-> "loop"]
  /\ wtask = [w \in Workers |-> NoTask]
  /\ wchan = [w \in Workers |-> 0]
  /\ rpc = <<>>
  /\ cres = <<>>
  /\ units = <<>>
  /\ boundAtStop = {}
  /\ listener = {}
  /\ started = <<>>
  /\ ran = <<>>
  /\ snap = NoSnap
  /\ crashed = "no"

\* no Run call and no MakeSpecialJudgeMode call beside the engine
NoLibCalls ==
  /\ run = NoRun
  /\ judgerArg = 0
  /\ judgeMode = J_LAX

Init == EngineInit /\ NoLibCalls


(* ------------------------------------------------------------------ *)
(* Task.update bodies: each is the function f run under the task lock  *)
(* ------------------------------------------------------------------ *)
\* worker.run, first update
SetRunning(j) == [j EXCEPT !.Status = ST_RUNNING]

\* worker.run, second update: the compile verdict goes to Results[0]
SetCompileStatus(j, status) == [j EXCEPT !.Results[0].Status = status]

\* CompFailUpdate with the loop that marks the results left out
CompFailUpdate_KeepsCases(j, status, output) ==
  [j EXCEPT !.Status = status, !.Results[0].Extra = output]

\* worker.run, the update taken when status != ST_COMPILATION_SUCCESS: the
\* loop over Results starts at index 0
CompFailUpdate(j, status, output) ==
  [j EXCEPT !.Status = status,
            !.Results = [i \in DOMAIN j.Results |->
                           IF i = 0
                             THEN [j.Results[0] EXCEPT !.Extra = output,
                                                       !.Status = ST_SKIPPED]
                             ELSE [j.Results[i] EXCEPT !.Status = ST_SKIPPED]]]

\* worker.runOne, first update
RunOneStart(j, i) == [j EXCEPT !.Results[i + 1].Status = ST_RUNNING]

\* the text runOne formats into Extra for a runner status
ExtraOf(status, old) ==
  CASE status = ST_RUNTIME_ERROR -> "Process terminated by signal"
    [] status = ST_HOSTILE_CODE -> "Process killed due to malicious syscall"
    [] OTHER -> old

\* worker.runOne, second update: the runner's output
RunOneOutput(j, i, output) ==
  [j EXCEPT !.Results[i + 1] =
     [ Status |-> IF output.Status # ST_ACCEPTED THEN output.Status ELSE @.Status,
       Usages |-> output.Usages,
       Points |-> @.Points,
       Extra |-> ExtraOf(output.Status, @.Extra) ]]

\* RunOneJudged without the clamp of the points at 0
RunOneJudged_NoClamp(j, i, status, deduction) ==
  [j EXCEPT !.Results[i + 1] =
     [ @ EXCEPT !.Status = status,
                !.Points = IF status = ST_ACCEPTED
                             THEN j.Cases[i].Points - deduction
                             ELSE @ ]]

\* worker.runOne, third update: the judge's status and the points
RunOneJudged(j, i, status, deduction) ==
  [j EXCEPT !.Results[i + 1] =
     [ @ EXCEPT !.Status = status,
                !.Points = IF status = ST_ACCEPTED
                             THEN Max(j.Cases[i].Points - deduction, 0)
                             ELSE @ ]]

\* FinalScan without the break: the last result that is not accepted wins
FinalScan_NoBreak(j, k) ==
  LET bad == {i \in k..NumCases(j) : j.Results[i].Status # ST_ACCEPTED}
  IN  IF bad = {} THEN ST_ACCEPTED
      ELSE j.Results[CHOOSE i \in bad : \A m \in bad : m <= i].Status

\* worker.run, last update: the loop over Results[1:] that breaks at the
\* first result that is not accepted; k is the index the loop is at
RECURSIVE FinalScan(_, _)
FinalScan(j, k) ==
  IF k > NumCases(j) THEN ST_ACCEPTED
  ELSE IF j.Results[k].Status # ST_ACCEPTED THEN j.Results[k].Status
  ELSE FinalScan(j, k + 1)

\* FinalUpdate without the test of the broke flag
FinalUpdate_NoBroke(j) == [j EXCEPT !.Status = ST_ACCEPTED]

FinalUpdate(j) == [j EXCEPT !.Status = FinalScan(j, 1)]

\* Task.cancel
CancelUpdate(j) ==
  [j EXCEPT !.Status = ST_CANCELLED,
            !.Results = [i \in DOMAIN j.Results |->
                           [j.Results[i] EXCEPT !.Status = ST_CANCELLED]]]

(* ------------------------------------------------------------------ *)
(* Engine: ledger                                                      *)
(* ------------------------------------------------------------------ *)
\* slices.Contains(e.taskIds, id)
Contains(ids, id) == \E k \in 1..Len(ids) : ids[k] = id

\* removeTask that deletes the entry after the one it found
Delete_Next(ids, id) ==
  LET index == CHOOSE k \in 1..Len(ids) : ids[k] = id
  IN  SubSeq(ids, 1, index) \o SubSeq(ids, index + 2, Len(ids))

\* removeTask that finds the id and leaves it in the ledger
Delete_Keeps(ids, id) == ids

\* slices.Index + slices.Delete: the ledger without the first id
Delete(ids, id) ==
  LET index == CHOOSE k \in 1..Len(ids) :
                 ids[k] = id /\ \A m \in 1..(k - 1) : ids[m] # id
  IN  SubSeq(ids, 1, index - 1) \o SubSeq(ids, index + 1, Len(ids))

\* the task pointers Schedule has returned to the embedding program
Returned == {t \in Tasks : ~(spc # "idle" /\ t = counter - 1)}


(* ------------------------------------------------------------------ *)
(* Engine.Schedule                                                     *)
(* ------------------------------------------------------------------ *)
\* Schedule(job) up to the send: takes the engine lock, creates the task,
\* appends its id to the ledger and offers the task on the queue
ScheduleJob(init) ==
  /\ Alive
  /\ spc = "idle"
  /\ lock = "free"
  /\ job' = job @@ (counter :> NewJob(init))
  /\ lock' = "Schedule"
  /\ counter' = counter + 1
  /\ taskIds' = Append(taskIds, counter)
  /\ queue' = <<counter>>
  /\ spc' = "sending"
  /\ cpc' = cpc @@ (counter :> "idle")
  /\ cancelled' = cancelled @@ (counter :> FALSE)
  /\ rpc' = rpc @@ (counter :> "none")
  /\ cres' = cres @@ (counter :> [Status |-> ST_WAITING, Output |-> ""])
  /\ units' = units @@ (counter :> <<>>)
  /\ UNCHANGED <<stopVars, workerVars, snap, crashed, libVars, listenVars>>

\* the embedding program schedules job after job
ScheduleCall ==
  /\ counter < MaxTasks
  /\ \E init \in JobInits :
       /\ CasesOf(Tasks) + Len(init.Cases) <= MaxCases
       /\ ScheduleJob(init)

\* the embedding program schedules one job, of any shape
ScheduleOnce ==
  /\ counter = 0
  /\ \E init \in JobInits : ScheduleJob(init)

\* the embedding program schedules one packed job
SchedulePacked ==
  /\ counter = 0
  /\ \E init \in PackedInits : ScheduleJob(init)

\* the embedding program schedules one job that names a judger or a
\* language
ScheduleHost ==
  /\ counter = 0
  /\ \E init \in HostInits : ScheduleJob(init)

\* the embedding program schedules one job it will subscribe to
ScheduleListen ==
  /\ counter = 0
  /\ \E init \in ListenInits : ScheduleJob(init)

\* Schedule after a worker received the task: the deferred Unlock, return
ScheduleReturn ==
  /\ Alive
  /\ spc = "sent"
  /\ spc' = "idle"
  /\ lock' = "free"
  /\ UNCHANGED <<counter, taskIds, queue, stopVars, job, cancelVars,
                 workerVars, runVars, snap, crashed, libVars, listenVars>>

(* ------------------------------------------------------------------ *)
(* Task.update, Task.Subscribe and the listener calls                  *)
(* ------------------------------------------------------------------ *)
\* the end of Task.update, still under the task lock: with a listener set,
\* go t.listener(t.job) starts a goroutine that holds the Job value copied
\* at the go statement
Notify(t) ==
  started' = IF t \in listener
               THEN Append(started, [task |-> t, Status |-> job'[t].Status])
               ELSE started

\* the started listener calls that have not run yet
Pending == (1..Len(started)) \ {ran[k] : k \in 1..Len(ran)}

\* the program subscribes to a task it holds: t.listener = listener, a
\* single word written without the task lock, so an update running at the
\* same time reads the old or the new value
Subscribe(t) ==
  /\ Alive
  /\ t \in Returned
  /\ t \notin listener
  /\ listener' = listener \cup {t}
  /\ UNCHANGED <<engineVars, stopVars, job, cancelVars, workerVars, runVars, snap,
                 crashed, libVars, started, ran>>

\* the scheduler runs one of the listener goroutines that were started
ListenerRun(n) ==
  /\ Alive
  /\ n \in Pending
  /\ Len(ran) < MaxRan
  /\ ran' = Append(ran, n)
  /\ UNCHANGED <<engineVars, stopVars, job, cancelVars, workerVars, runVars, snap,
                 crashed, libVars, listener, started>>

(* ------------------------------------------------------------------ *)
(* Engine.CancelTask                                                   *)
(* ------------------------------------------------------------------ *)
\* CancelTask with the test of removeTask's result left out
AfterRemove_Always(found) == "cancel"

\* where CancelTask goes after removeTask returned found
AfterRemove(found) == IF found THEN "cancel" ELSE "miss"

\* e.removeTask(task.id) under the engine lock
CancelRemove(t) ==
  /\ Alive
  /\ t \in Returned
  /\ cpc[t] = "idle"
  /\ lock = "free"
  /\ taskIds' = IF Contains(taskIds, t) THEN Delete(taskIds, t) ELSE taskIds
  /\ cpc' = [cpc EXCEPT ![t] = AfterRemove(Contains(taskIds, t))]
  /\ UNCHANGED <<counter, lock, queue, spc, stopVars, job, cancelled,
                 workerVars, runVars, snap, crashed, libVars, listenVars>>

\* removeTask returned false: CancelTask returns without calling cancel
CancelReturn(t) ==
  /\ Alive
  /\ t \in Tasks
  /\ cpc[t] = "miss"
  /\ cpc' = [cpc EXCEPT ![t] = "idle"]
  /\ UNCHANGED <<engineVars, stopVars, job, cancelled, workerVars, runVars, snap,
                 crashed, libVars, listenVars>>

\* task.cancel() after removeTask returned true
CancelMark(t) ==
  /\ Alive
  /\ t \in Tasks
  /\ cpc[t] = "cancel"
  /\ job' = [job EXCEPT ![t] = CancelUpdate(@)]
  /\ cancelled' = [cancelled EXCEPT ![t] = TRUE]
  /\ cpc' = [cpc EXCEPT ![t] = "idle"]
  /\ Notify(t)
  /\ UNCHANGED <<engineVars, stopVars, workerVars, runVars, snap,
                 crashed, libVars, listener, ran>>

(* ------------------------------------------------------------------ *)
(* Engine.Shutdown                                                     *)
(* ------------------------------------------------------------------ *)
\* close(e.stopFlag)
ShutdownClose ==
  /\ Alive
  /\ shutpc = "idle"
  /\ stopFlag < MaxShutdowns
  /\ closed' = closed \cup {stopFlag}
  /\ shutpc' = "closed"
  /\ boundAtStop' = {w \in Workers : wpc[w] = "run"}
  /\ UNCHANGED <<stopFlag, engineVars, job, cancelVars, workerVars, runVars, snap,
                 crashed, libVars, listenVars>>

\* e.stopFlag = make(chan any)
ShutdownReset ==
  /\ Alive
  /\ shutpc = "closed"
  /\ stopFlag' = stopFlag + 1
  /\ shutpc' = "idle"
  /\ UNCHANGED <<closed, boundAtStop, engineVars, job, cancelVars, workerVars,
                 runVars, snap, crashed, libVars, listenVars>>

(* ------------------------------------------------------------------ *)
(* worker.poll                                                         *)
(* ------------------------------------------------------------------ *)
\* what an unsynchronised read of e.stopFlag may return: the channel
\* Shutdown installed last, or one it installed before
StopFlagRead == 0..stopFlag

\* top of the loop: the select evaluates w.engine.stopFlag
WorkerSelect(w) ==
  /\ Alive
  /\ wpc[w] = "loop"
  /\ \E g \in StopFlagRead : wchan' = [wchan EXCEPT ![w] = g]
  /\ wpc' = [wpc EXCEPT ![w] = "select"]
  /\ UNCHANGED <<engineVars, stopVars, job, cancelVars, wtask, runVars, snap,
                 crashed, libVars, listenVars>>

\* case task := <-w.engine.queue: the rendezvous with Schedule's send
WorkerReceive(w) ==
  /\ Alive
  /\ wpc[w] = "select"
  /\ queue # <<>>
  /\ wtask' = [wtask EXCEPT ![w] = queue[1]]
  /\ wpc' = [wpc EXCEPT ![w] = "received"]
  /\ queue' = <<>>
  /\ spc' = "sent"
  /\ UNCHANGED <<counter, taskIds, lock, stopVars, job, cancelVars, wchan,
                 runVars, snap, crashed, libVars, listenVars>>

\* case <-w.engine.stopFlag: return
WorkerStop(w) ==
  /\ Alive
  /\ wpc[w] = "select"
  /\ wchan[w] \in closed
  /\ wpc' = [wpc EXCEPT ![w] = "exited"]
  /\ UNCHANGED <<engineVars, stopVars, job, cancelVars, wtask, wchan, runVars, snap,
                 crashed, libVars, listenVars>>

\* where poll goes after ContainsTask returned found
AfterContains(found) == IF found THEN "checked" ELSE "loop"

\* if w.engine.ContainsTask(task.id): takes and releases the engine lock
WorkerContains(w) ==
  /\ Alive
  /\ wpc[w] = "received"
  /\ lock = "free"
  /\ LET found == Contains(taskIds, wtask[w]) IN
       /\ wpc' = [wpc EXCEPT ![w] = AfterContains(found)]
       /\ wtask' = [wtask EXCEPT ![w] = IF AfterContains(found) = "loop"
                                          THEN NoTask ELSE @]
  /\ UNCHANGED <<engineVars, stopVars, job, cancelVars, wchan, runVars, snap,
                 crashed, libVars, listenVars>>

\* w.engine.removeTask(task.id), its result dropped; then w.run(task)
WorkerRemove(w) ==
  /\ Alive
  /\ wpc[w] = "checked"
  /\ lock = "free"
  /\ taskIds' = IF Contains(taskIds, wtask[w])
                  THEN Delete(taskIds, wtask[w]) ELSE taskIds
  /\ wpc' = [wpc EXCEPT ![w] = "run"]
  /\ rpc' = [rpc EXCEPT ![wtask[w]] = "start"]
  /\ UNCHANGED <<counter, lock, queue, spc, stopVars, job, cancelVars, wtask,
                 wchan, cres, units, snap, crashed, libVars, listenVars>>


(* ------------------------------------------------------------------ *)
(* worker.run                                                          *)
(* ------------------------------------------------------------------ *)
\* the worker running task t
Runner(w, t) == wpc[w] = "run" /\ wtask[w] = t

\* run returns into poll's loop
Return(w) ==
  /\ wpc' = [wpc EXCEPT ![w] = "loop"]
  /\ wtask' = [wtask EXCEPT ![w] = NoTask]
  /\ UNCHANGED wchan

\* task.job.Status = ST_RUNNING
RunStart(w, t) ==
  /\ Alive
  /\ Runner(w, t)
  /\ rpc[t] = "start"
  /\ job' = [job EXCEPT ![t] = SetRunning(@)]
  /\ rpc' = [rpc EXCEPT ![t] = "compile"]
  /\ Notify(t)
  /\ UNCHANGED <<engineVars, stopVars, cancelVars, workerVars, cres, units, snap,
                 crashed, libVars, listener, ran>>

\* where run goes after Compile returned status
AfterCompile(status) ==
  IF status # ST_COMPILATION_SUCCESS THEN "compfail" ELSE "dispatch"

\* compiler.Compile and the update storing its status in Results[0]; a
\* panic in Compile ends the process
RunCompile(w, t) ==
  /\ Alive
  /\ Runner(w, t)
  /\ rpc[t] = "compile"
  /\ \E panics \in CompilePanics(job[t].Lang) :
       IF panics
         THEN /\ crashed' = "Compile"
              /\ UNCHANGED <<cres, job, rpc, started>>
         ELSE /\ \E c \in CompileReturns(job[t].Lang) :
                   /\ cres' = [cres EXCEPT ![t] = c]
                   /\ job' = [job EXCEPT ![t] = SetCompileStatus(@, c.Status)]
                   /\ rpc' = [rpc EXCEPT ![t] = AfterCompile(c.Status)]
              /\ Notify(t)
              /\ UNCHANGED crashed
  /\ UNCHANGED <<engineVars, stopVars, cancelVars, workerVars, units, snap,
                 libVars, listener, ran>>

\* the update of a failed compilation, and the return
RunCompFail(w, t) ==
  /\ Alive
  /\ Runner(w, t)
  /\ rpc[t] = "compfail"
  /\ job' = [job EXCEPT ![t] = CompFailUpdate(@, cres[t].Status, cres[t].Output)]
  /\ rpc' = [rpc EXCEPT ![t] = "done"]
  /\ Return(w)
  /\ Notify(t)
  /\ UNCHANGED <<engineVars, stopVars, cancelVars, cres, units, snap,
                 crashed, libVars, listener, ran>>

\* run that dispatches through runUnpacked whatever Groups holds
UnitCases_Unpacked(j) == [u \in 1..NumCases(j) |-> <<u - 1>>]

\* the 0-based case indices each goroutine of runUnpacked (one per case)
\* or runPacked (one per group, i-1 for each i of the group) passes to runOne
UnitCases(j) ==
  IF j.Groups = NoGroups
    THEN [u \in 1..NumCases(j) |-> <<u - 1>>]
    ELSE [u \in 1..Len(j.Groups) |->
            [k \in 1..Len(j.Groups[u]) |-> j.Groups[u][k] - 1]]

\* a goroutine at the k-th index of its list
UnitAt(list, k) ==
  IF k > Len(list) THEN [pc |-> "done", pos |-> 0, ded |-> 0]
                   ELSE [pc |-> "start", pos |-> k, ded |-> 0]

\* runUnpacked / runPacked up to wg.Wait(): the goroutines are started
RunDispatch(w, t) ==
  /\ Alive
  /\ Runner(w, t)
  /\ rpc[t] = "dispatch"
  /\ units' = [units EXCEPT ![t] =
                 [u \in DOMAIN UnitCases(job[t]) |-> UnitAt(UnitCases(job[t])[u], 1)]]
  /\ rpc' = [rpc EXCEPT ![t] = "cases"]
  /\ UNCHANGED <<engineVars, stopVars, job, cancelVars, workerVars, cres, snap,
                 crashed, libVars, listenVars>>

\* wg.Wait() that returns as soon as one goroutine called wg.Done()
Joined_Any(t) == \E u \in DOMAIN units[t] : units[t][u].pc = "done"

\* wg.Wait() returns: every goroutine called wg.Done()
Joined(t) == \A u \in DOMAIN units[t] : units[t][u].pc = "done"

\* the last update of run, after wg.Wait(), and the return
RunFinal(w, t) ==
  /\ Alive
  /\ Runner(w, t)
  /\ rpc[t] = "cases"
  /\ Joined(t)
  /\ job' = [job EXCEPT ![t] = FinalUpdate(@)]
  /\ rpc' = [rpc EXCEPT ![t] = "done"]
  /\ Return(w)
  /\ Notify(t)
  /\ UNCHANGED <<engineVars, stopVars, cancelVars, cres, units, snap,
                 crashed, libVars, listener, ran>>

(* ------------------------------------------------------------------ *)
(* worker.runOne, run by goroutine u of task t                         *)
(* ------------------------------------------------------------------ *)
\* the case index i the goroutine is at
UnitCase(t, u) == UnitCases(job[t])[u][units[t][u].pos]

\* runOne returned: the goroutine goes to the next index of its list
UnitNext(t, u) == UnitAt(UnitCases(job[t])[u], units[t][u].pos + 1)

\* first update: Results[i+1].Status = ST_RUNNING
RunOneBegin(t, u) ==
  /\ Alive
  /\ units[t][u].pc = "start"
  /\ job' = [job EXCEPT ![t] = RunOneStart(@, UnitCase(t, u))]
  /\ units' = [units EXCEPT ![t][u].pc = "run"]
  /\ Notify(t)
  /\ UNCHANGED <<engineVars, stopVars, cancelVars, workerVars, rpc, cres, snap,
                 crashed, libVars, listener, ran>>

\* output := Run(input) and the second update; a panic in Run ends the
\* process
RunOneRun(t, u) ==
  /\ Alive
  /\ units[t][u].pc = "run"
  /\ \E panics \in RunPanics :
       IF panics
         THEN /\ crashed' = "Run"
              /\ UNCHANGED <<job, units, started>>
         ELSE /\ \E output \in RunnerOutputs :
                   /\ job' = [job EXCEPT ![t] =
                                RunOneOutput(@, UnitCase(t, u), output)]
                   /\ units' = [units EXCEPT ![t][u] =
                                  IF output.Status = ST_ACCEPTED
                                    THEN [@ EXCEPT !.pc = "judge",
                                                   !.ded = output.Deduction]
                                    ELSE UnitNext(t, u)]
              /\ Notify(t)
              /\ UNCHANGED crashed
  /\ UNCHANGED <<engineVars, stopVars, cancelVars, workerVars, rpc, cres, snap,
                 libVars, listener, ran>>

\* the judge of the job's mode and the third update; indexing w.judgers
\* out of range ends the process
RunOneJudge(t, u) ==
  /\ Alive
  /\ units[t][u].pc = "judge"
  /\ IF JudgePanics(job[t].Mode)
       THEN /\ crashed' = "judgers"
            /\ UNCHANGED <<job, units, started>>
       ELSE /\ \E status \in JudgeOutcomes(job[t].Mode) :
                 job' = [job EXCEPT ![t] =
                           RunOneJudged(@, UnitCase(t, u), status, units[t][u].ded)]
            /\ units' = [units EXCEPT ![t][u] = UnitNext(t, u)]
            /\ Notify(t)
            /\ UNCHANGED crashed
  /\ UNCHANGED <<engineVars, stopVars, cancelVars, workerVars, rpc, cres, snap,
                 libVars, listener, ran>>

(* ------------------------------------------------------------------ *)
(* Task.SnapJob                                                        *)
(* ------------------------------------------------------------------ *)
\* return t.job: the struct is copied, so Status is a copy, and Results is
\* a slice header pointing at the task's own array; taken keeps what the
\* array held when the snapshot was made
SnapJob(t) ==
  /\ Alive
  /\ t \in Returned
  /\ snap = NoSnap
  /\ snap' = [task |-> t, Status |-> job[t].Status, Results |-> t,
              taken |-> job[t].Results]
  /\ UNCHANGED <<engineVars, stopVars, job, cancelVars, workerVars, runVars,
                 crashed, libVars, listenVars>>

\* what reading snapshot s's Results yields now
SnapResults(s) == job[s.Results].Results

(* ------------------------------------------------------------------ *)
(* runner.go: Run, followed on its own                                 *)
(* ------------------------------------------------------------------ *)
\* Limits values of a RunnerInput
LimitsIn == [Time : {0, 1}, StackMemory : {0, 1}, HeapMemory : {0, 1}]

\* Limits.IsAllUnlimited
IsAllUnlimited(u) == u.Time = 0 /\ u.StackMemory = 0 /\ u.HeapMemory = 0

\* no wait status read yet
NoEvent == [kind |-> "none", RetData |-> 0, Nr |-> 0, Code |-> 0]

\* the signal a child is ended with from outside
SIGKILL == 9

\* Run entered with input.Limits = limits: the locals at their zero values
RunCall(limits) ==
  [ pc |-> "stdin", Limits |-> limits, setupErr |-> "none", clock |-> 0,
    child |-> "none", status |-> NoEvent,
    usages |-> [Time |-> 0, Memory |-> 0], skipUsages |-> FALSE,
    deduction |-> 0, seen |-> 0, stack |-> 0, heap |-> 0,
    output |-> [Status |-> ST_WAITING, Stdout |-> "",
                Usages |-> [Time |-> 0, Memory |-> 0], Deduction |-> 0,
                ExitInfo |-> 0] ]

\* return RunnerOutput{...}
RunReturn(r, status, stdout, usages, deduction, exitInfo) ==
  [r EXCEPT !.pc = "returned",
            !.output = [Status |-> status, Stdout |-> stdout,
                        Usages |-> usages, Deduction |-> deduction,
                        ExitInfo |-> exitInfo]]

\* the return taken by the error tests of the setup and of io.ReadAll
SystemError(r) ==
  RunReturn(r, ST_SYSTEM_ERROR, "", [Time |-> 0, Memory |-> 0], 0, 0)

\* what getMemoryUsages can return: (stack, heap, nil), or an error with
\* the values parsed before it; /proc/pid is gone once the child is reaped
Samples(child) ==
  IF child = "reaped"
    THEN {[ok |-> FALSE, stack |-> 0, heap |-> 0]}
    ELSE [ok : BOOLEAN, stack : 0..MaxMem, heap : 0..MaxMem]

\* the closure updateUsages: usages is replaced only when err == nil
UpdateUsages(r, smp) ==
  IF smp.ok
    THEN [r EXCEPT !.usages = [Time |-> r.clock, Memory |-> smp.stack + smp.heap],
                   !.stack = smp.stack, !.heap = smp.heap]
    ELSE [r EXCEPT !.stack = smp.stack, !.heap = smp.heap]

\* the time test without the test that a time limit is set
TimeExceeded_NoZeroTest(limits, usages) == usages.Time > limits.Time

\* input.Limits.Time > 0 && usages.Time > input.Limits.Time
TimeExceeded(limits, usages) ==
  limits.Time > 0 /\ usages.Time > limits.Time

\* the memory test of the poll loop
MemoryExceeded(limits, stack, heap) ==
  \/ limits.StackMemory > 0 /\ stack > limits.StackMemory
  \/ limits.HeapMemory > 0 /\ heap > limits.HeapMemory

\* unix.Kill(pid, SIGKILL): ends a child that is still there
Kill(r) == [r EXCEPT !.child = IF @ = "traced" THEN "killed" ELSE @]

\* the wait statuses Wait4 can report for the child: a seccomp stop with
\* the number of the syscall and the data the filter retained, another
\* stop, the exit stop, and after the exit stop the exit itself with its
\* exit status; a kill from outside ends the child at any time
Events(r) ==
  IF r.skipUsages
    THEN {[NoEvent EXCEPT !.kind = "exited", !.Code = c] : c \in 0..MaxExit}
         \cup {[NoEvent EXCEPT !.kind = "signaled", !.Code = SIGKILL]}
    ELSE {[NoEvent EXCEPT !.kind = "seccomp", !.RetData = d, !.Nr = n] :
            d \in 0..(MaxDeduction - r.deduction), n \in 1..MaxNr}
         \cup {[NoEvent EXCEPT !.kind = k] : k \in {"stop", "exit"}}
         \cup {[NoEvent EXCEPT !.kind = "signaled", !.Code = SIGKILL]}

\* Wait4 returned status ev: an exit or a death by signal reaps the child;
\* seen keeps the sum of the data of the seccomp stops reported so far
Waited(r, ev) ==
  [r EXCEPT !.status = ev,
            !.seen = @ + ev.RetData,
            !.child = IF ev.kind \in {"exited", "signaled"} THEN "reaped" ELSE @]

\* stdinR, stdinW, err := os.Pipe()
RunStdinPipe ==
  /\ run.pc = "stdin"
  /\ \E ok \in BOOLEAN :
       run' = IF ok THEN [run EXCEPT !.pc = "stdout"]
                    ELSE SystemError([run EXCEPT !.setupErr = "stdin"])
  /\ UNCHANGED <<allEngineVars, judgerArg, judgeMode>>

\* stdoutR, stdoutW, err := os.Pipe()
RunStdoutPipe ==
  /\ run.pc = "stdout"
  /\ \E ok \in BOOLEAN :
       run' = IF ok THEN [run EXCEPT !.pc = "vforkExec"]
                    ELSE SystemError([run EXCEPT !.setupErr = "stdout"])
  /\ UNCHANGED <<allEngineVars, judgerArg, judgeMode>>

\* pid, err := vforkExec(...): os.StartProcess returns (nil, err) when it
\* fails and vforkExec reads process.Pid of it, which panics before the
\* test of err; else the child is there, stopped, and traced
RunVforkExec ==
  /\ run.pc = "vforkExec"
  /\ \E ok \in BOOLEAN :
       run' = IF ok THEN [run EXCEPT !.pc = "cont", !.child = "traced"]
                    ELSE [run EXCEPT !.pc = "panic", !.setupErr = "vforkExec"]
  /\ UNCHANGED <<allEngineVars, judgerArg, judgeMode>>

\* top of the loop: PtraceCont, then the blocking or the polling wait
RunCont ==
  /\ run.pc = "cont"
  /\ run' = [run EXCEPT !.pc = IF IsAllUnlimited(run.Limits) THEN "wait" ELSE "poll"]
  /\ UNCHANGED <<allEngineVars, judgerArg, judgeMode>>

\* unix.Wait4(pid, &status, WUNTRACED, &rusage): blocks until a status
RunWait ==
  /\ run.pc = "wait"
  /\ \E ev \in Events(run) : \E dt \in {0, 1} :
       /\ run.clock + dt <= MaxClock
       /\ run' = [Waited(run, ev) EXCEPT !.pc = "stopped", !.clock = @ + dt]
  /\ UNCHANGED <<allEngineVars, judgerArg, judgeMode>>

\* time.Sleep of one poll interval; the clock value MaxClock stands for
\* every later time as well
Slept(clock) == IF clock < MaxClock THEN clock + 1 ELSE MaxClock

\* one turn of the poll loop: Sleep, Wait4 with WNOHANG (which may report
\* nothing, and then leaves status 0), then the sample and the limit tests
\* unless skipUsages
RunPoll ==
  /\ run.pc = "poll"
  /\ \E ev \in Events(run) \cup {NoEvent} :
       LET slept == [run EXCEPT !.clock = Slept(@)]
           waited == Waited(slept, ev)
           after == [waited EXCEPT !.pc = IF ev = NoEvent THEN "poll" ELSE "stopped"]
       IN  IF run.skipUsages
             THEN run' = after
             ELSE \E smp \in Samples(waited.child) :
                    LET r == UpdateUsages(waited, smp) IN
                      run' = IF TimeExceeded(r.Limits, r.usages)
                               THEN RunReturn(Kill(r), ST_TIME_LIMIT_EXCEEDED, "",
                                              r.usages, 0, 0)
                             ELSE IF MemoryExceeded(r.Limits, smp.stack, smp.heap)
                               THEN RunReturn(Kill(r), ST_MEMORY_LIMIT_EXCEEDED, "",
                                              r.usages, 0, 0)
                             ELSE [r EXCEPT !.pc = after.pc]
  /\ UNCHANGED <<allEngineVars, judgerArg, judgeMode>>

\* a hostile_code return whose ExitInfo is left at 0
ExitInfoOf_Zero(info) == 0

\* ExitInfo: int(info.Seccomp.Nr)
ExitInfoOf(info) == info.Nr

\* an accumulation that keeps only the data read last
Accumulate_Last(deduction, retData) == retData

\* deduction += info.Seccomp.RetData
Accumulate(deduction, retData) == deduction + retData

\* the tests of status after the wait; deduction is a uint32 that the
\* sums followed here (at most MaxDeduction) do not wrap
RunStopped ==
  /\ run.pc = "stopped"
  /\ CASE run.status.kind = "seccomp" ->
            \E smp \in Samples(run.child) :
              LET r == UpdateUsages(run, smp) IN
                run' = IF run.status.RetData = 0
                         THEN RunReturn(Kill(r), ST_HOSTILE_CODE, "", r.usages, 0,
                                        ExitInfoOf(run.status))
                         ELSE [r EXCEPT !.pc = "cont",
                                        !.deduction = Accumulate(@, run.status.RetData)]
       [] run.status.kind = "exit" ->
            \E smp \in Samples(run.child) :
              run' = [UpdateUsages(run, smp) EXCEPT !.pc = "cont", !.skipUsages = TRUE]
       [] run.status.kind = "exited" ->
            \E readOk \in BOOLEAN :
              run' = IF readOk
                       THEN RunReturn(run, ST_ACCEPTED, "out", run.usages,
                                      run.deduction, run.status.Code)
                       ELSE SystemError(run)
       [] run.status.kind = "signaled" ->
            run' = RunReturn(run, ST_RUNTIME_ERROR, "", run.usages, 0,
                             run.status.Code)
       [] OTHER -> run' = [run EXCEPT !.pc = "cont"]
  /\ UNCHANGED <<allEngineVars, judgerArg, judgeMode>>

(* ------------------------------------------------------------------ *)
(* models.go: MakeSpecialJudgeMode, called on its own                  *)
(* ------------------------------------------------------------------ *)
\* the judge modes without a judger
PlainModes == {J_LAX, J_STRICT}

\* the embedding program replaces the plain mode it holds by
\* MakeSpecialJudgeMode(judgerArg)
MakeSpecial ==
  /\ judgeMode \in PlainModes
  /\ judgeMode' = MakeSpecialJudgeMode(judgerArg)
  /\ UNCHANGED <<allEngineVars, run, judgerArg>>

(* ------------------------------------------------------------------ *)
(* Specification                                                       *)
(* ------------------------------------------------------------------ *)
\* the steps of the workers on the tasks they hold
WorkerNext ==
  \/ \E w \in Workers : WorkerSelect(w)
  \/ \E w \in Workers : WorkerReceive(w)
  \/ \E w \in Workers : WorkerContains(w)
  \/ \E w \in Workers : WorkerRemove(w)
  \/ \E w \in Workers, t \in Tasks : RunStart(w, t)
  \/ \E w \in Workers, t \in Tasks : RunCompile(w, t)
  \/ \E w \in Workers, t \in Tasks : RunCompFail(w, t)
  \/ \E w \in Workers, t \in Tasks : RunDispatch(w, t)
  \/ \E w \in Workers, t \in Tasks : RunFinal(w, t)
  \/ \E t \in Tasks : \E u \in DOMAIN units[t] : RunOneBegin(t, u)
  \/ \E t \in Tasks : \E u \in DOMAIN units[t] : RunOneRun(t, u)
  \/ \E t \in Tasks : \E u \in DOMAIN units[t] : RunOneJudge(t, u)

\* the engine serving a program that schedules, cancels and shuts down
Next ==
  \/ ScheduleCall
  \/ ScheduleReturn
  \/ ShutdownClose
  \/ ShutdownReset
  \/ \E t \in Tasks : CancelRemove(t)
  \/ \E t \in Tasks : CancelMark(t)
  \/ \E t \in Tasks : CancelReturn(t)
  \/ \E w \in Workers : WorkerStop(w)
  \/ WorkerNext

Spec == Init /\ [][Next]_vars

\* the life of one task of any shape, with a caller that cancels it and
\* takes a snapshot of it
TaskNext ==
  \/ ScheduleOnce
  \/ ScheduleReturn
  \/ \E t \in Tasks : CancelRemove(t)
  \/ \E t \in Tasks : CancelMark(t)
  \/ \E t \in Tasks : CancelReturn(t)
  \/ \E t \in Tasks : SnapJob(t)
  \/ WorkerNext

TaskSpec == Init /\ [][TaskNext]_vars

\* the life of one packed task, with a caller that cancels it
PackedNext ==
  \/ SchedulePacked
  \/ ScheduleReturn
  \/ \E t \in Tasks : CancelRemove(t)
  \/ \E t \in Tasks : CancelMark(t)
  \/ \E t \in Tasks : CancelReturn(t)
  \/ WorkerNext

PackedSpec == Init /\ [][PackedNext]_vars

\* the life of one task whose job names a judger or a language
HostNext ==
  \/ ScheduleHost
  \/ ScheduleReturn
  \/ \E t \in Tasks : CancelRemove(t)
  \/ \E t \in Tasks : CancelMark(t)
  \/ \E t \in Tasks : CancelReturn(t)
  \/ WorkerNext

HostSpec == Init /\ [][HostNext]_vars

\* the life of one task whose caller subscribes a listener to it
ListenNext ==
  \/ ScheduleListen
  \/ ScheduleReturn
  \/ \E t \in Tasks : Subscribe(t)
  \/ \E n \in 1..Len(started) : ListenerRun(n)
  \/ WorkerNext

ListenSpec == Init /\ [][ListenNext]_vars

\* a Run call with any of the Limits values, beside an idle engine
RunInit ==
  /\ EngineInit
  /\ \E limits \in LimitsIn : run = RunCall(limits)
  /\ judgerArg = 0
  /\ judgeMode = J_LAX

RunNext ==
  \/ RunStdinPipe
  \/ RunStdoutPipe
  \/ RunVforkExec
  \/ RunCont
  \/ RunWait
  \/ RunPoll
  \/ RunStopped

RunSpec == RunInit /\ [][RunNext]_vars

\* Run is called on a goroutine locked to its thread, which keeps being
\* scheduled: the call always takes its next step
RunLiveSpec == RunInit /\ [][RunNext]_vars /\ WF_vars(RunNext)

\* a program that holds a plain judge mode and a judger id, beside an idle
\* engine
ModeInit ==
  /\ EngineInit
  /\ run = NoRun
  /\ judgerArg \in 0..MaxJudgerArg
  /\ judgeMode \in PlainModes

ModeNext == MakeSpecial

ModeSpec == ModeInit /\ [][ModeNext]_vars


(* ------------------------------------------------------------------ *)
(* Properties                                                          *)
(* ------------------------------------------------------------------ *)
CaseResults(j) == 1..NumCases(j)

AllStatus(j, status) == \A i \in DOMAIN j.Results : j.Results[i].Status = status

AllCasesAccepted(j) == \A i \in CaseResults(j) : j.Results[i].Status = ST_ACCEPTED

\* C1: once CancelTask has found the task's id in the ledger and marked the
\* task cancelled, no worker executes the task: run is never at work on it,
\* and its job status and every result status stay cancelled.
C1_CancelledNeverRuns ==
  \A t \in Tasks :
    cancelled[t] =>
      /\ rpc[t] \in {"none", "done"}
      /\ job[t].Status = ST_CANCELLED
      /\ AllStatus(job[t], ST_CANCELLED)

\* C2: once a task's job status is terminal, no step modifies the job: its
\* status and every result stay as they were.
C2_TerminalJobFrozen ==
  [][\A t \in Tasks : Finished(job[t]) => job'[t] = job[t]]_vars

\* C3: a Job returned by SnapJob is a copy: the results read through it
\* are the results the task had when the snapshot was taken, whatever
\* updates were applied to the task since.
C3_SnapshotIsCopy ==
  snap # NoSnap => SnapResults(snap) = snap.taken

\* C4: with workers spawned and no Shutdown, the engine does not deadlock:
\* a Schedule call that waits in its send is never left with every worker
\* waiting for the engine lock.
C4_ScheduleNeverStuck ==
  (closed = {} /\ spc = "sending") =>
    \E w \in Workers : wpc[w] \notin {"received", "checked"}

\* C5: a worker that is running a task at the moment Shutdown closes the
\* stop channel finishes that task and dequeues no further task.
C5_BoundWorkerTakesNoTask ==
  [][\A w \in boundAtStop : ~(wpc[w] = "select" /\ wpc'[w] = "received")]_vars

\* C6: for every job with a terminal status, results[0].status is
\* compilation_success, compilation_error, system_error or cancelled.
C6_CompileVerdictKept ==
  \A t \in Tasks :
    Finished(job[t]) =>
      job[t].Results[0].Status \in
        {ST_COMPILATION_SUCCESS, ST_COMPILATION_ERROR, ST_SYSTEM_ERROR, ST_CANCELLED}


\* the step of run that takes the update of a failed compilation
CompFailStep(t) == rpc[t] = "compfail" /\ rpc'[t] # "compfail"

\* the step of run that takes the last update
FinalStep(t) == rpc[t] = "cases" /\ rpc'[t] # "cases"

CompileFailed(t) ==
  cres[t].Status \in {ST_COMPILATION_ERROR, ST_SYSTEM_ERROR}

\* C7: when compilation ends with compilation_error or system_error, run
\* takes the failure update, which records the diagnostic in
\* results[0].extra, sets the job status to the compile outcome and marks
\* every case result skipped, and returns; no case is ever run.
C7_CompileFailureSkipsCases ==
  /\ [](\A t \in Tasks :
          CompileFailed(t) =>
            /\ rpc[t] \in {"compfail", "done"}
            /\ units[t] = <<>>
            /\ \A i \in CaseResults(job[t]) :
                 job[t].Results[i].Status \in {ST_WAITING, ST_SKIPPED, ST_CANCELLED})
  /\ [][\A t \in Tasks :
          CompFailStep(t) =>
            /\ CompileFailed(t)
            /\ job'[t].Results[0].Extra = cres[t].Output
            /\ job'[t].Status = cres[t].Status
            /\ \A i \in CaseResults(job[t]) : job'[t].Results[i].Status = ST_SKIPPED
            /\ rpc'[t] = "done"]_vars

\* a compilation error on a job with cases, after run has returned
C7_Witness ==
  \E t \in Tasks :
    /\ rpc[t] = "done"
    /\ cres[t].Status = ST_COMPILATION_ERROR
    /\ NumCases(job[t]) = 2
    /\ job[t].Status = ST_COMPILATION_ERROR
    /\ job[t].Results[0].Extra = "diag"
    /\ \A i \in CaseResults(job[t]) : job[t].Results[i].Status = ST_SKIPPED

\* C8 as claimed: in every state, the job status is accepted if and only
\* if every case result is accepted.
C8_AcceptedIffAllAccepted ==
  \A t \in Tasks : (job[t].Status = ST_ACCEPTED) <=> AllCasesAccepted(job[t])

\* C8 as amended: in every state a job whose status is accepted has every
\* case result accepted; and the last update of run leaves the status
\* accepted exactly when every case result is accepted.
C8_AcceptedImpliesAllAccepted ==
  /\ [](\A t \in Tasks : job[t].Status = ST_ACCEPTED => AllCasesAccepted(job[t]))
  /\ [][\A t \in Tasks :
          FinalStep(t) =>
            ((job'[t].Status = ST_ACCEPTED) <=> AllCasesAccepted(job'[t]))]_vars

\* a job with two cases, both accepted, whose run has returned
C8_Witness ==
  \E t \in Tasks :
    /\ rpc[t] = "done"
    /\ NumCases(job[t]) = 2
    /\ job[t].Status = ST_ACCEPTED
    /\ AllCasesAccepted(job[t])

\* the status the claim gives a job whose cases are complete: that of the
\* lowest-index case result that is not accepted, else accepted
FirstNotAccepted(j, status) ==
  IF AllCasesAccepted(j)
    THEN status = ST_ACCEPTED
    ELSE \E i \in CaseResults(j) :
           /\ j.Results[i].Status # ST_ACCEPTED
           /\ \A k \in 1..(i - 1) : j.Results[k].Status = ST_ACCEPTED
           /\ status = j.Results[i].Status

\* C9: the last update of run is taken only when every goroutine of the
\* job's cases has finished, and it sets the job status to the status of
\* the lowest-index case result that is not accepted, or to accepted when
\* all are; a job that was not cancelled keeps that status.
C9_FinalStatusIsFirstNotAccepted ==
  /\ [][\A t \in Tasks :
          FinalStep(t) =>
            /\ \A u \in DOMAIN units[t] : units[t][u].pc = "done"
            /\ DOMAIN units[t] = DOMAIN UnitCases(job[t])
            /\ FirstNotAccepted(job'[t], job'[t].Status)]_vars
  /\ [](\A t \in Tasks :
          (rpc[t] = "done" /\ cres[t].Status = ST_COMPILATION_SUCCESS /\ ~cancelled[t])
            => FirstNotAccepted(job[t], job[t].Status))

\* two cases that both failed, differently: the first one's status wins
C9_Witness ==
  \E t \in Tasks :
    /\ rpc[t] = "done"
    /\ NumCases(job[t]) = 2
    /\ job[t].Results[1].Status = ST_WRONG_ANSWER
    /\ job[t].Results[2].Status = ST_RUNTIME_ERROR
    /\ job[t].Status = ST_WRONG_ANSWER

\* C10 as claimed: an accepted case result has 0 <= points <= the points
\* of its case, for every case point value.
C10_PointsWithinCase ==
  \A t \in Tasks : \A i \in CaseResults(job[t]) :
    job[t].Results[i].Status = ST_ACCEPTED =>
      /\ 0 <= job[t].Results[i].Points
      /\ job[t].Results[i].Points <= job[t].Cases[i - 1].Points

\* C10 as amended: an accepted case result has points >= 0, and points at
\* most the points of its case when those are not negative (a case with
\* negative points is accepted with 0 points).
C10_PointsWithinNonNegativeCase ==
  \A t \in Tasks : \A i \in CaseResults(job[t]) :
    job[t].Results[i].Status = ST_ACCEPTED =>
      /\ 0 <= job[t].Results[i].Points
      /\ job[t].Results[i].Points <= Max(job[t].Cases[i - 1].Points, 0)

\* an accepted case whose deduction exceeded its points: clamped to 0
C10_Witness ==
  \E t \in Tasks : \E i \in CaseResults(job[t]) :
    /\ job[t].Results[i].Status = ST_ACCEPTED
    /\ job[t].Cases[i - 1].Points = 1
    /\ job[t].Results[i].Points = 0

\* C11: cancellation is idempotent: once CancelTask has cancelled a task, a
\* further CancelTask call on it finds no id to remove, never reaches
\* Task.cancel and changes neither any job nor the ledger.
C11_SecondCancelChangesNothing ==
  [][\A t \in Tasks :
       (cancelled[t] /\ cpc'[t] # cpc[t]) =>
         /\ cpc'[t] # "cancel"
         /\ job' = job
         /\ taskIds' = taskIds]_vars

\* a second CancelTask on a cancelled task, after its removeTask
C11_Witness ==
  \E t \in Tasks :
    /\ cancelled[t]
    /\ cpc[t] = "miss"
    /\ job[t].Status = ST_CANCELLED

\* the verdict run gives a job when no cancel touches it: the compile
\* outcome when compilation failed, else the status of the first case
\* result that is not accepted, else accepted
NormalVerdict(t) ==
  IF CompileFailed(t) THEN job[t].Status = cres[t].Status
                      ELSE FirstNotAccepted(job[t], job[t].Status)

\* C12: a CancelTask call on a task that a worker has claimed (run was
\* entered on it: it is running or finished) is a no-op: its removeTask
\* finds no id, no job and no ledger entry changes, Task.cancel is not
\* reached, and a run that no cancel touched ends with its normal verdict.
C12_CancelAfterClaimIsNoOp ==
  /\ [][\A t \in Tasks :
          (rpc[t] # "none" /\ cpc[t] = "idle" /\ cpc'[t] # "idle") =>
            /\ cpc'[t] = "miss"
            /\ job' = job
            /\ taskIds' = taskIds]_vars
  /\ [](\A t \in Tasks :
          (rpc[t] = "done" /\ ~cancelled[t]) => NormalVerdict(t))

\* CancelTask was called on a task whose cases are running: it found no id
C12_Witness ==
  \E t \in Tasks :
    /\ rpc[t] = "cases"
    /\ job[t].Status = ST_RUNNING
    /\ \E i \in CaseResults(job[t]) : job[t].Results[i].Status = ST_RUNNING
    /\ cpc[t] = "miss"
    /\ ~cancelled[t]

\* a case result holds a verdict: the case was run to its end
HasVerdict(r) == r.Status \notin {ST_WAITING, ST_RUNNING, ST_SKIPPED}

\* the jobs dispatched through runPacked
Packed(j) == j.Groups # NoGroups

\* C13: in packed mode a group whose first case ends with a non-accepted
\* status does not keep another group from running: when run takes its
\* last update, every goroutine has gone through its whole group and every
\* case listed in any group has been run to a verdict.
C13_OtherGroupsStillRun ==
  [][\A t \in Tasks :
       (Packed(job[t]) /\ FinalStep(t)) =>
         /\ \A u \in DOMAIN units[t] : units[t][u].pc = "done"
         /\ \A g \in 1..Len(job[t].Groups) : \A k \in 1..Len(job[t].Groups[g]) :
              HasVerdict(job[t].Results[job[t].Groups[g][k]])]_vars

\* the first case of the first group ended with a runtime error, and the
\* case of the second group was run and accepted
C13_Witness ==
  \E t \in Tasks :
    /\ Packed(job[t])
    /\ Len(job[t].Groups) = 2
    /\ rpc[t] = "done"
    /\ job[t].Results[job[t].Groups[1][1]].Status = ST_RUNTIME_ERROR
    /\ job[t].Results[job[t].Groups[2][1]].Status = ST_ACCEPTED

\* C14: in packed mode the cases of one group run one after the other in
\* the order the group lists them: the result of a case is set running
\* only when the case listed before it in its group holds its verdict;
\* nothing orders the cases of different groups.
C14_GroupRunsInListedOrder ==
  [][\A t \in Tasks :
       Packed(job[t]) =>
         \A g \in 1..Len(job[t].Groups) : \A k \in 2..Len(job[t].Groups[g]) :
           LET this == job[t].Groups[g][k]
               prev == job[t].Groups[g][k - 1]
           IN  (job[t].Results[this].Status # ST_RUNNING
                  /\ job'[t].Results[this].Status = ST_RUNNING)
                 => job[t].Results[prev].Status \notin {ST_WAITING, ST_RUNNING}]_vars

\* the second case listed by the first group is running after the first
\* one got its verdict, while the case of the other group is still running
C14_Witness ==
  \E t \in Tasks :
    /\ Packed(job[t])
    /\ Len(job[t].Groups) = 2
    /\ Len(job[t].Groups[1]) = 2
    /\ job[t].Groups[1][2] < job[t].Groups[1][1]
    /\ job[t].Results[job[t].Groups[1][1]].Status = ST_WRONG_ANSWER
    /\ job[t].Results[job[t].Groups[1][2]].Status = ST_RUNNING
    /\ job[t].Results[job[t].Groups[2][1]].Status = ST_RUNNING

\* C15: no failure leaves a task as a crash: a job whose language has no
\* compiler, or whose special judge mode names a judger id the worker does
\* not hold, gets a Status through the updates of run, and no goroutine
\* panics in Compile or on the worker's judgers.
C15_FailureBecomesStatus ==
  crashed \notin {"Compile", "judgers"}

\* C16: when a host-side step of the setup of Run fails (either pipe, or
\* the spawn of the child), Run returns system_error with an empty stdout
\* and a zero deduction.
C16_SetupFailureIsSystemError ==
  (run.pc # "none" /\ run.setupErr # "none") =>
    /\ run.pc = "returned"
    /\ run.output.Status = ST_SYSTEM_ERROR
    /\ run.output.Stdout = ""
    /\ run.output.Deduction = 0

\* Run has returned the status
Returned_With(status) == run.pc = "returned" /\ run.output.Status = status

\* C17: the limit verdicts are sound. With Limits{0,0,0} Run returns
\* neither time_limit_exceeded nor memory_limit_exceeded. It returns
\* time_limit_exceeded only with Limits.Time > 0 and a reported
\* usages.Time above it, and memory_limit_exceeded only with a nonzero
\* stack or heap limit below the value just sampled; in both cases the
\* child is no longer running and the output carries the usages sampled
\* last, an empty stdout and no deduction.
C17_LimitVerdictsSound ==
  /\ IsAllUnlimited(run.Limits) =>
        ~(Returned_With(ST_TIME_LIMIT_EXCEEDED)
            \/ Returned_With(ST_MEMORY_LIMIT_EXCEEDED))
  /\ Returned_With(ST_TIME_LIMIT_EXCEEDED) =>
        /\ run.Limits.Time > 0
        /\ run.output.Usages.Time > run.Limits.Time
  /\ Returned_With(ST_MEMORY_LIMIT_EXCEEDED) =>
        \/ run.Limits.StackMemory > 0 /\ run.stack > run.Limits.StackMemory
        \/ run.Limits.HeapMemory > 0 /\ run.heap > run.Limits.HeapMemory
  /\ (Returned_With(ST_TIME_LIMIT_EXCEEDED)
        \/ Returned_With(ST_MEMORY_LIMIT_EXCEEDED)) =>
        /\ run.child \in {"killed", "reaped"}
        /\ run.output.Usages = run.usages
        /\ run.output.Stdout = ""
        /\ run.output.Deduction = 0

\* a run with a stack limit and no time limit, killed when a sample of its
\* stack passed the limit
C17_Witness ==
  /\ Returned_With(ST_MEMORY_LIMIT_EXCEEDED)
  /\ run.Limits.Time = 0
  /\ run.Limits.StackMemory > 0
  /\ run.stack > run.Limits.StackMemory
  /\ run.child = "killed"

\* the judger ids a JudgeMode has room for: 8 bits
JudgerIds == 0..(2 ^ 8 - 1)

\* C18: the JudgeMode encoding round-trips: for every judger id in 0..255
\* the mode made by MakeSpecialJudgeMode(id) has ModeBits = J_SPECIAL and
\* JudgerId = id; ModeBits of J_LAX and of J_STRICT are J_LAX and J_STRICT.
C18_JudgeModeRoundTrip ==
  /\ judgeMode \in PlainModes => ModeBits(judgeMode) = judgeMode
  /\ (judgeMode \notin PlainModes /\ judgerArg \in JudgerIds) =>
        /\ ModeBits(judgeMode) = J_SPECIAL
        /\ JudgerId(judgeMode) = judgerArg
        /\ judgeMode \in 0..(2 ^ 16 - 1)

\* the mode made for the largest judger id
C18_Witness ==
  /\ judgerArg = 2 ^ 8 - 1
  /\ judgeMode \notin PlainModes
  /\ JudgerId(judgeMode) = judgerArg
  /\ ModeBits(judgeMode) = J_SPECIAL

RunOneRunStep(t, u) == units[t][u].pc = "run" /\ units'[t][u].pc # "run"

\* the step in which goroutine u of task t takes runOne's third update
RunOneJudgeStep(t, u) == units[t][u].pc = "judge" /\ units'[t][u].pc # "judge"

\* C20: runOne consults the judger only when the runner status is
\* accepted, and then the case result gets the judge's status and, when
\* that is accepted, points = max(case points - deduction, 0); when the
\* runner status is not accepted the case result gets the runner status,
\* its points are 0 and its extra is set for runtime_error and
\* hostile_code.
C20_RunOneRecordsVerdict ==
  [][\A t \in Tasks : \A u \in DOMAIN units[t] :
       LET i == UnitCase(t, u)
           old == job[t].Results[i + 1]
           new == job'[t].Results[i + 1]
       IN  /\ (RunOneRunStep(t, u) /\ units'[t][u].pc = "judge") =>
                 /\ new.Status = old.Status
                 /\ new.Points = old.Points
           /\ (RunOneRunStep(t, u) /\ units'[t][u].pc # "judge") =>
                 /\ new.Status \in {o.Status : o \in RunnerOutputs} \ {ST_ACCEPTED}
                 /\ new.Points = 0
                 /\ new.Status = ST_RUNTIME_ERROR =>
                       new.Extra = "Process terminated by signal"
                 /\ new.Status = ST_HOSTILE_CODE =>
                       new.Extra = "Process killed due to malicious syscall"
           /\ RunOneJudgeStep(t, u) =>
                 /\ new.Status \in JudgeOutcomes(job[t].Mode)
                 /\ new.Points = IF new.Status = ST_ACCEPTED
                                   THEN Max(job[t].Cases[i].Points - units[t][u].ded, 0)
                                   ELSE old.Points]_vars

\* goroutine u of task t takes the first update of runOne at the k-th index
\* of its list
RunOneBeginStep(t, u, k) ==
  /\ u \in DOMAIN units[t]
  /\ units[t][u].pc = "start"
  /\ units[t][u].pos = k
  /\ units'[t][u].pc = "run"

\* C21: packed mode fails fast within a group: a case of a group is set
\* running only when every case listed before it in that group ended
\* accepted; after a non-accepted case the rest of the group is left
\* unattempted.
C21_GroupFailsFast ==
  [][\A t \in Tasks :
       Packed(job[t]) =>
         \A g \in 1..Len(job[t].Groups) :
           \A k \in 2..Len(job[t].Groups[g]) :
             RunOneBeginStep(t, g, k) =>
               \A m \in 1..(k - 1) :
                 job[t].Results[job[t].Groups[g][m]].Status = ST_ACCEPTED]_vars

\* the job has no Groups: run dispatches through runUnpacked
Unpacked(j) == j.Groups = NoGroups

\* C22: in unpacked mode there is one goroutine per case index, goroutine
\* u runs index u-1 and nothing else, so every index 0..len(cases)-1 is
\* run once; run takes its last update only after every goroutine has
\* finished, and at that point no case result is waiting or running.
C22_UnpackedRunsEachCaseOnce ==
  /\ [](\A t \in Tasks :
          (Unpacked(job[t]) /\ rpc[t] \in {"cases", "done"} /\ ~CompileFailed(t)) =>
            /\ DOMAIN units[t] = 1..NumCases(job[t])
            /\ \A u \in DOMAIN units[t] :
                 /\ UnitCases(job[t])[u] = <<u - 1>>
                 /\ units[t][u].pc # "done" => units[t][u].pos = 1)
  /\ [][\A t \in Tasks :
          (Unpacked(job[t]) /\ FinalStep(t)) =>
            /\ Joined(t)
            /\ \A i \in CaseResults(job[t]) :
                 job[t].Results[i].Status \notin {ST_WAITING, ST_RUNNING}]_vars

\* the supervisor is at the tests of a wait status of the given kind
StoppedAt(kind) == run.pc = "stopped" /\ run.status.kind = kind

LiveStatuses ==
  {ST_ACCEPTED, ST_RUNTIME_ERROR, ST_HOSTILE_CODE, ST_TIME_LIMIT_EXCEEDED,
   ST_MEMORY_LIMIT_EXCEEDED}

\* C25: once the child has been spawned, Run does not return system_error:
\* the status it returns is accepted, runtime_error, hostile_code,
\* time_limit_exceeded or memory_limit_exceeded.
C25_NoSystemErrorAfterSpawn ==
  (run.pc = "returned" /\ run.child # "none") => run.output.Status \in LiveStatuses

\* C26: with Limits.Time > 0 every Run call whose child was spawned
\* returns, whatever the child does and whether or not the samples of its
\* memory succeed.
C26_RunTerminates ==
  (run.child = "traced" /\ run.Limits.Time > 0) ~> (run.pc = "returned")

\* C27: each update made while a listener is set starts one listener call
\* that carries the job status of that update, each started call runs at
\* most once, and the calls of a task run in the order in which the
\* updates were applied.
C27_ListenerCallsInUpdateOrder ==
  /\ [][\A t \in Tasks :
          (t \in listener /\ job'[t] # job[t]) =>
            /\ Len(started') = Len(started) + 1
            /\ started'[Len(started')] = [task |-> t, Status |-> job'[t].Status]]_vars
  /\ [](\A i, k \in 1..Len(ran) : i < k => ran[i] # ran[k])
  /\ [](\A i, k \in 1..Len(ran) :
          (i < k /\ started[ran[i]].task = started[ran[k]].task) => ran[i] < ran[k])

\* C28: when run returns, the job status is terminal: it is neither
\* waiting nor running, whatever the groups of the job cover and whatever
\* status its judger returned.
C28_FinishedRunIsTerminal ==
  [][\A t \in Tasks :
       (rpc[t] # "done" /\ rpc'[t] = "done") => Finished(job'[t])]_vars

\* the case result holds a verdict: the status a run of the case ended with
Verdict(r) == r.Status \notin {ST_WAITING, ST_RUNNING, ST_SKIPPED, ST_CANCELLED}

\* C29: during a run the status of a case result only moves forward,
\* waiting -> running -> verdict: a step of runOne never sets a result that
\* holds a verdict back to running and never replaces its verdict by
\* another, also for groups that list a case index more than once.
C29_CaseStatusMovesForward ==
  [][\A t \in Tasks :
       units'[t] # units[t] =>
         \A i \in CaseResults(job[t]) :
           /\ Verdict(job[t].Results[i]) =>
                job'[t].Results[i].Status = job[t].Results[i].Status
           /\ job[t].Results[i].Status = ST_RUNNING =>
                job'[t].Results[i].Status # ST_WAITING]_vars

====
